---------------------------- MODULE Spec2Model ----------------------------
(***************************************************************************)
(* A model of osm_data_client: one call of get_osm_data (api.py) against   *)
(* a remote service whose answers are chosen nondeterministically (Spec,   *)
(* FairSpec); the archive decoder and the validators over wider inputs     *)
(* (DecoderSpec, GeometrySpec, ParamsSpec); two calls in one event loop    *)
(* (TwoSpec).                                                              *)
(*                                                                         *)
(* JSON objects are records; a field that is missing from an object holds  *)
(* ABSENT and a JSON null holds NULL.  Strings that the code inspects      *)
(* character by character (file names, the file-name hint) are sequences   *)
(* of one-character strings.                                               *)
(***************************************************************************)
EXTENDS Integers, Sequences, FiniteSets, TLC

VARIABLES
    pc,             \* where the call is: "start", a suspension point, "done"
    geometry,       \* the geometry argument of get_osm_data
    kwargs,         \* the keyword arguments of get_osm_data
    geometry_input, \* GeometryInput built by from_input (api.py:204)
    params,         \* RequestParams built by from_kwargs (api.py:205)
    log,            \* operations started so far: submit, fetch, sleep, download
    submit_resp,    \* what the submission request was answered with
    fetched,        \* the answers of the status fetches, in order
    dl_resp,        \* what the download request was answered with
    poll_end,       \* how poll_task_status ended
    decoded,        \* whether _extract_zip_data was called
    zip_run,        \* what the try statement of _extract_zip_data did
    cancelled,      \* a cancellation was delivered to the call
    sessions,       \* the ClientSession scopes that are open
    outcome,        \* what get_osm_data returned or raised
    slept,          \* the durations of the sleeps of the poll, in order
    other,          \* a second call of get_osm_data, suspended: its state
    cur,            \* which of the two calls the variables above belong to
    cli             \* the command-line run around the call (cli.py)

vars == <<pc, geometry, kwargs, geometry_input, params, log, submit_resp,
          fetched, dl_resp, poll_end, decoded, zip_run, cancelled, sessions,
          outcome, slept, other, cur, cli>>

----------------------------------------------------------------------------
(* Bounds of the model *)

\* the service answers at most this many status fetches with a pending status
MaxPolls == 3
\* an archive lists at most this many entries
MaxEntries == 2

----------------------------------------------------------------------------
(* Values *)

ABSENT == "<absent>"
NULL == "<null>"

\* response.status >= 400 (api.py:55, 83, 113)
HttpErrorMin == 400

HttpCodes == {200, 399, 400, 500}

\* character sequences
S_osm_export == <<"o","s","m","_","e","x","p","o","r","t">>
S_data == <<"d","a","t","a">>
S_geojson == <<".","g","e","o","j","s","o","n">>
S_csv == <<".","c","s","v">>
N_data_geojson == <<"d","a","t","a",".","g","e","o","j","s","o","n">>
N_a_csv == <<"a",".","c","s","v">>
N_meta_txt == <<"m","e","t","a",".","t","x","t">>

----------------------------------------------------------------------------
(* String helpers, as Python computes them *)

\* Python: sub in s
Contains(sub, s) ==
    \E i \in 0..(Len(s) - Len(sub)) :
        \A j \in 1..Len(sub) : s[i + j] = sub[j]

\* Python: s.endswith(suf)
EndsWith(s, suf) ==
    /\ Len(suf) <= Len(s)
    /\ \A j \in 1..Len(suf) : s[Len(s) - Len(suf) + j] = suf[j]

\* Python: s.split('.')[-1]
SplitLast(s) ==
    LET dots == {i \in 1..Len(s) : s[i] = "."}
        last == IF dots = {} THEN 0
                ELSE CHOOSE i \in dots : \A k \in dots : k <= i
    IN  SubSeq(s, last + 1, Len(s))


----------------------------------------------------------------------------
(* models.py: GeometryInput *)

\* a GeoJSON object: its "type" and "coordinates" members and, for a
\* FeatureCollection, its "features" member; a feature is its "geometry"
\* member (gkind: absent, null or an object with type and coordinates)
GeoObject(t, c) ==
    [type |-> t, coordinates |-> c, has_features |-> FALSE, features |-> <<>>]

Feature(k, t, c) == [gkind |-> k, type |-> t, coordinates |-> c]

Collection(fs) ==
    [type |-> "FeatureCollection", coordinates |-> ABSENT,
     has_features |-> TRUE, features |-> fs]

\* the geometry argument: a string that is no JSON ("text_bad"), a string
\* that is JSON ("text") or an already parsed value ("object"); mapping says
\* whether the value is a JSON object
GeometryArg(k, m, v) == [kind |-> k, mapping |-> m, value |-> v]

valid_types == {"Polygon", "MultiPolygon"}

GeomResult(tag, t, c) == [tag |-> tag, type |-> t, coordinates |-> c]
NoGeometryInput == GeomResult("none", ABSENT, ABSENT)

\* GeometryInput.from_input
from_input(g) ==
    IF g.kind = "text_bad"
    THEN GeomResult("ValidationError", ABSENT, ABSENT)
    ELSE IF ~g.mapping
    THEN GeomResult("AttributeError", ABSENT, ABSENT)
    ELSE
      LET d == g.value
          substituted ==
              /\ d.type = "FeatureCollection"
              /\ d.has_features
              /\ Len(d.features) > 0
              /\ d.features[1].gkind # "absent"
          gd_null == substituted /\ d.features[1].gkind = "null"
          gd_type == IF substituted THEN d.features[1].type ELSE d.type
          gd_coordinates ==
              IF substituted THEN d.features[1].coordinates ELSE d.coordinates
      IN  IF gd_null THEN GeomResult("TypeError", ABSENT, ABSENT)
          ELSE IF gd_type = ABSENT
          THEN GeomResult("ValidationError", ABSENT, ABSENT)
          ELSE IF gd_coordinates = ABSENT
          THEN GeomResult("ValidationError", ABSENT, ABSENT)
          ELSE IF gd_type \notin valid_types
          THEN GeomResult("ValidationError", ABSENT, ABSENT)
          ELSE GeomResult("ok", gd_type, gd_coordinates)

----------------------------------------------------------------------------
(* models.py: RequestParams *)

VALID_OUTPUT_TYPES ==
    {"geojson", "shp", "kml", "mbtiles", "flatgeobuf", "csv", "geopackage",
     "pgdump"}

\* an optional keyword: <<>> when it is not given, <<v>> when it is
None == <<>>
Some(v) == <<v>>

\* the keyword arguments get_osm_data passes on; unknown says that a keyword
\* that is no field of RequestParams is among them
Kwargs(fn, ot, sfn, sot, u) ==
    [fileName |-> fn, outputType |-> ot, file_name |-> sfn,
     output_type |-> sot, unknown |-> u]

ParamsResult(tag, fn, ot) == [tag |-> tag, file_name |-> fn, output_type |-> ot]

\* from_kwargs without the renaming of the camel-case keywords: they reach
\* cls(**params) under their own names
from_kwargs_no_camel(kw) ==
    LET fn == IF kw.file_name # None THEN kw.file_name[1] ELSE S_osm_export
        ot == IF kw.output_type # None THEN kw.output_type[1] ELSE "geojson"
    IN  IF kw.unknown \/ kw.fileName # None \/ kw.outputType # None
        THEN ParamsResult("TypeError", <<>>, ABSENT)
        ELSE IF ot \notin VALID_OUTPUT_TYPES
        THEN ParamsResult("ValidationError", <<>>, ABSENT)
        ELSE ParamsResult("ok", fn, ot)

\* RequestParams.from_kwargs
from_kwargs(kw) ==
    LET \* the camel-case keywords, then params.update(kwargs), then the
        \* dataclass defaults
        fn == IF kw.file_name # None THEN kw.file_name[1]
              ELSE IF kw.fileName # None THEN kw.fileName[1]
              ELSE S_osm_export
        ot == IF kw.output_type # None THEN kw.output_type[1]
              ELSE IF kw.outputType # None THEN kw.outputType[1]
              ELSE "geojson"
    IN  IF kw.unknown THEN ParamsResult("TypeError", <<>>, ABSENT)
        ELSE IF ot \notin VALID_OUTPUT_TYPES
        THEN ParamsResult("ValidationError", <<>>, ABSENT)
        ELSE ParamsResult("ok", fn, ot)

NoParams == ParamsResult("none", <<>>, ABSENT)

----------------------------------------------------------------------------
(* The arguments the calls of the model are made with *)

GeometryInputs ==
    { GeometryArg("object", TRUE, GeoObject("Polygon", "ring")),
      GeometryArg("text", TRUE, GeoObject("MultiPolygon", "ring")),
      GeometryArg("object", TRUE, GeoObject("Point", "ring")),
      GeometryArg("object", TRUE, GeoObject(ABSENT, "ring")),
      GeometryArg("object", TRUE, GeoObject("Polygon", ABSENT)),
      GeometryArg("text_bad", FALSE, GeoObject(ABSENT, ABSENT)),
      GeometryArg("text", FALSE, GeoObject(ABSENT, ABSENT)),
      GeometryArg("object", TRUE,
          Collection(<<Feature("object", "Polygon", "ring"),
                       Feature("object", "Point", "ring")>>)),
      GeometryArg("object", TRUE, Collection(<<>>)),
      GeometryArg("object", TRUE,
          Collection(<<Feature("null", ABSENT, ABSENT)>>)) }

KwargsInputs ==
    { Kwargs(None, None, None, None, FALSE),
      Kwargs(Some(S_data), Some("geojson"), None, None, FALSE),
      Kwargs(None, Some("csv"), None, None, FALSE),
      Kwargs(Some(S_data), Some("invalid_format"), None, None, FALSE),
      Kwargs(None, Some("geojson"), None, Some("bogus"), FALSE),
      Kwargs(None, None, Some(S_data), Some("shp"), FALSE),
      Kwargs(Some(S_data), None, None, None, TRUE) }

----------------------------------------------------------------------------
(* What the remote service can answer *)

\* the JSON object a submission is answered with
Body(tl, d) == [track_link |-> tl, detail |-> d]
EmptyBody == Body(ABSENT, ABSENT)

\* fail = "transport": the request or the reading of its answer raised an
\*   exception that is no ClientResponseError (timeout, connection reset,
\*   a body that is no JSON);
\* fail = "response_error": it raised aiohttp's ClientResponseError, which
\*   carries the HTTP status of the answer (a body of the wrong content type);
\* fail = "none": the answer has HTTP status http and the JSON object body
SubmitResp(f, h, b) == [fail |-> f, http |-> h, body |-> b]

NoSubmitResp == SubmitResp("unset", 0, EmptyBody)

SubmitBodies ==
    { Body(ABSENT, ABSENT), Body(NULL, ABSENT), Body("", ABSENT),
      Body("/tasks/1", ABSENT), Body(ABSENT, "boom") }

SubmitResponses ==
    {SubmitResp("transport", 0, EmptyBody)}
      \cup {SubmitResp("response_error", h, EmptyBody) : h \in HttpCodes}
      \cup {SubmitResp("none", h, b) : h \in HttpCodes, b \in SubmitBodies}

\* the answer to a status fetch: {status, result: {download_url, error_msg}};
\* result_kind says whether "result" is absent, null or an object
StatusResp(f, h, st, rk, url, em) ==
    [fail |-> f, http |-> h, status |-> st, result_kind |-> rk,
     download_url |-> url, error_msg |-> em]

PendingStatuses == {"RUNNING", "success"}
TerminalStatuses == {"SUCCESS", "FAILED"}

StatusResponses ==
    {StatusResp("transport", 0, ABSENT, "absent", ABSENT, ABSENT)}
      \cup {StatusResp("none", h, "FAILED", "absent", ABSENT, ABSENT) :
               h \in HttpCodes}
      \cup {StatusResp("none", 200, ABSENT, "absent", ABSENT, ABSENT)}
      \cup {StatusResp("none", 200, st, "absent", ABSENT, ABSENT) :
               st \in PendingStatuses}
      \cup {StatusResp("none", 200, st, rk, ABSENT, ABSENT) :
               st \in TerminalStatuses, rk \in {"absent", "null"}}
      \cup {StatusResp("none", 200, st, "object", url, em) :
               st \in TerminalStatuses,
               url \in {ABSENT, NULL, "", "https://dl/1.zip"},
               em \in {ABSENT, "boom"}}

\* an answer that keeps the task going
IsPendingAnswer(r) ==
    r.fail = "none" /\ r.http < HttpErrorMin /\ r.status \in PendingStatuses

\* a zip archive: corrupt, or a listing of entries; an entry is its name,
\* whether its content can be read and decoded, and for a csv text its rows
\* (each the sequence of its cells)
Entry(n, ok) == [name |-> n, content_ok |-> ok, rows |-> <<>>]
Archive(c, es) == [corrupt |-> c, entries |-> es]

EntryChoices ==
    { Entry(N_data_geojson, TRUE), Entry(N_data_geojson, FALSE),
      Entry(N_a_csv, TRUE), Entry(N_meta_txt, TRUE) }

RECURSIVE Listings(_)
Listings(n) ==
    IF n = 0 THEN {<<>>}
    ELSE Listings(n - 1)
           \cup {Append(l, e) : l \in {x \in Listings(n - 1) : Len(x) = n - 1},
                                e \in EntryChoices}

Archives ==
    {Archive(TRUE, <<>>)} \cup {Archive(FALSE, l) : l \in Listings(MaxEntries)}

DownloadResp(f, h, a) == [fail |-> f, http |-> h, archive |-> a]

NoDownloadResp == DownloadResp("unset", 0, Archive(TRUE, <<>>))

DownloadResponses ==
    {DownloadResp("transport", 0, Archive(TRUE, <<>>))}
      \cup {DownloadResp("none", h, Archive(TRUE, <<>>)) :
               h \in {x \in HttpCodes : x >= HttpErrorMin}}
      \cup {DownloadResp("none", h, a) :
               h \in {x \in HttpCodes : x < HttpErrorMin}, a \in Archives}

----------------------------------------------------------------------------
(* What a call returns or raises *)

Payload(k, i, f, n, rs) ==
    [kind |-> k, entry |-> i, format |-> f, file_name |-> n, rows |-> rs]
NoPayload == Payload("none", 0, <<>>, <<>>, <<>>)

\* kind: "return" or the class of the exception; status_code and
\* response_data are the fields of an APIRequestError; msg_status and
\* msg_error are the status and the error_msg that the message of the
\* orchestrator's DownloadError quotes; payload is the value returned
Outcome(k, sc, rd, ms, me, pl) ==
    [kind |-> k, status_code |-> sc, response_data |-> rd,
     msg_status |-> ms, msg_error |-> me, payload |-> pl]

NoOutcome == Outcome("none", 0, EmptyBody, ABSENT, ABSENT, NoPayload)
Raised(k) == Outcome(k, 0, EmptyBody, ABSENT, ABSENT, NoPayload)
RaisedAPIRequestError(sc, rd) ==
    Outcome("APIRequestError", sc, rd, ABSENT, ABSENT, NoPayload)
Returned(pl) == Outcome("return", 0, EmptyBody, ABSENT, ABSENT, pl)

\* the class an exception class is declared to derive from (exceptions.py);
\* the built-in errors derive from Exception, CancelledError does not
Base(k) ==
    IF k \in {"ValidationError", "APIRequestError", "TaskPollingError",
              "DownloadError"}
    THEN "OSMClientError"
    ELSE IF k = "CancelledError" THEN "BaseException"
    ELSE "Exception"

\* "except BaseException" (or a bare except), which catches CancelledError too
ExceptException_bare(exc) == TRUE

\* "except Exception" catches every exception that derives from Exception;
\* asyncio.CancelledError derives from BaseException only
ExceptException(exc) == exc # "CancelledError"

----------------------------------------------------------------------------
(* api.py: RawDataAPI.request_snapshot *)

\* the body of the try statement (api.py:49-57): the exception it raises or
\* "none" when it returns response_data
snapshot_try(r) ==
    IF r.fail = "transport" THEN "Exception"
    ELSE IF r.fail = "response_error" THEN "ClientResponseError"
    ELSE IF r.http >= HttpErrorMin THEN "APIRequestError"
    ELSE "none"

\* the except clauses (api.py:58-61), tried in order, for an exception exc
\* raised while the answer r was handled
snapshot_except(exc, r) ==
    IF exc = "ClientResponseError" THEN RaisedAPIRequestError(r.http, EmptyBody)
    ELSE IF ExceptException(exc) THEN RaisedAPIRequestError(0, EmptyBody)
    ELSE Raised(exc)

\* request_snapshot for the answer r: "return" with response_data = the body,
\* or what it raises
request_snapshot(r) ==
    LET exc == snapshot_try(r)
    IN  IF exc = "none"
        THEN Outcome("return", 0, r.body, ABSENT, ABSENT, NoPayload)
        ELSE snapshot_except(exc, r)

----------------------------------------------------------------------------
(* api.py: RawDataAPI.poll_task_status *)

\* IsTerminal comparing the status without regard to case
IsTerminal_any_case(st) == st \in {"SUCCESS", "FAILED", "success", "failed"}

\* result["status"] in ["SUCCESS", "FAILED"] (api.py:88)
IsTerminal(st) == st \in {"SUCCESS", "FAILED"}

\* the body of the try statement for one answer (api.py:80-90): "return",
\* "sleep" or the exception raised
poll_try(r) ==
    IF r.fail # "none" THEN "Exception"
    ELSE IF r.http >= HttpErrorMin THEN "TaskPollingError"
    ELSE IF r.status = ABSENT THEN "KeyError"
    ELSE IF IsTerminal(r.status) THEN "return"
    ELSE "sleep"

\* the except clauses with a failed fetch tried again after a sleep
poll_except_retry(exc) ==
    IF exc = "TaskPollingError" THEN "TaskPollingError"
    ELSE IF ExceptException(exc) THEN "sleep"
    ELSE exc

\* the except clauses (api.py:91-94)
poll_except(exc) ==
    IF exc = "TaskPollingError" THEN "TaskPollingError"
    ELSE IF ExceptException(exc) THEN "TaskPollingError"
    ELSE exc

\* one iteration of the loop: "return", "sleep" or the exception that leaves
\* poll_task_status
poll_step(r) ==
    LET t == poll_try(r)
    IN  IF t \in {"return", "sleep"} THEN t ELSE poll_except(t)

\* polling_interval: int = 2 (api.py:63); get_osm_data passes none (api.py:219)
polling_interval == 2

\* sleep_duration growing with the number of sleeps made
sleep_duration_backoff(done) == polling_interval * (Len(done) + 1)

\* asyncio.sleep(polling_interval) (api.py:90): the duration of the sleep
\* that follows the sleeps done
sleep_duration(done) == polling_interval

\* the loop staying in its sleep
poll_after_sleep_stuck(l) == [pc |-> "poll_sleep", log |-> l]

\* the loop after its sleep (api.py:90, 78-80): the next fetch is started
poll_after_sleep(l) == [pc |-> "poll_fetch", log |-> Append(l, "fetch")]

----------------------------------------------------------------------------
(* api.py: RawDataAPI._extract_zip_data and download_snapshot *)

\* the entry that zip_ref.open(name) opens: the last one of that name
OpenIndex(es, name) ==
    CHOOSE i \in 1..Len(es) :
        /\ es[i].name = name
        /\ \A k \in 1..Len(es) : es[k].name = name => k <= i

\* SelectIndex with the loop not left at the first match: the last match
SelectIndex_no_break(es, file_name) ==
    LET hits == {i \in 1..Len(es) : Contains(file_name, es[i].name)}
    IN  IF hits = {} THEN 2
        ELSE CHOOSE i \in hits : \A k \in hits : k <= i

\* the entry selected (api.py:144-148): index 1 of the listing (0-based),
\* or the first entry whose name contains file_name
SelectIndex(es, file_name) ==
    LET hits == {i \in 1..Len(es) : Contains(file_name, es[i].name)}
    IN  IF hits = {} THEN 2
        ELSE CHOOSE i \in hits : \A k \in hits : i <= k

\* list(csv.DictReader(...)) for the rows of a text (api.py:157-158): the
\* first row names the columns, a blank row is skipped, and every other row
\* gives one mapping; a column the row is too short for maps to None
DictReader(rows) ==
    IF rows = <<>> THEN <<>>
    ELSE
      LET fieldnames == Head(rows)
          cols == {fieldnames[j] : j \in 1..Len(fieldnames)}
          data == SelectSeq(Tail(rows), LAMBDA r : r # <<>>)
          Col(c) == CHOOSE j \in 1..Len(fieldnames) :
                      /\ fieldnames[j] = c
                      /\ \A k \in 1..Len(fieldnames) :
                           fieldnames[k] = c => k <= j
      IN  [k \in 1..Len(data) |->
             [c \in cols |-> IF Col(c) <= Len(data[k])
                             THEN data[k][Col(c)] ELSE NULL]]

\* what one run of the try statement leaves: the exception raised ("none"
\* when it returns), the text of that exception, the statements run, the
\* listing positions selected and opened, and the payload returned
ExtractRun(exc, detail, steps, sel, opn, pl) ==
    [exc |-> exc, detail |-> detail, steps |-> steps, selected |-> sel,
     opened |-> opn, payload |-> pl]
NoExtractRun == ExtractRun("unset", "", <<>>, 0, 0, NoPayload)

\* the exception that reading an entry with undecodable content raises
ReadError(data_file) ==
    IF EndsWith(data_file, S_geojson) THEN "JSONDecodeError"
    ELSE IF EndsWith(data_file, S_csv) THEN "UnicodeDecodeError"
    ELSE "BadZipFile"

\* api.py:152-165: the payload decoded from the entry at position i, opened
\* under the name data_file
extract_read(es, i, data_file) ==
    IF EndsWith(data_file, S_geojson)
    THEN Payload("geojson", i, <<>>, <<>>, <<>>)
    ELSE IF EndsWith(data_file, S_csv)
    THEN Payload("csv", i, <<>>, <<>>, DictReader(es[i].rows))
    ELSE Payload("binary", i, SplitLast(data_file), data_file, <<>>)

\* extract_try with the entry selected before the listing is counted
extract_try_count_late(zip_data, file_name) ==
    LET es == zip_data.entries
        hits == {i \in 1..Len(es) : Contains(file_name, es[i].name)}
    IN  IF zip_data.corrupt
        THEN ExtractRun("BadZipFile", "File is not a zip file",
                        <<"ZipFile">>, 0, 0, NoPayload)
        ELSE IF hits = {} /\ Len(es) < 2
        THEN ExtractRun("IndexError", "list index out of range",
                        <<"ZipFile", "namelist", "select">>, 0, 0, NoPayload)
        ELSE
          LET sel == SelectIndex(es, file_name)
              i == OpenIndex(es, es[sel].name)
          IN  IF Len(es) < 2
              THEN ExtractRun("DownloadError",
                              "Expected at least 2 files in the archive",
                              <<"ZipFile", "namelist", "select", "count">>,
                              sel, 0, NoPayload)
              ELSE IF ~es[i].content_ok
              THEN ExtractRun(ReadError(es[sel].name), "decoding failed",
                       <<"ZipFile", "namelist", "select", "count", "open",
                         "read">>, sel, i, NoPayload)
              ELSE ExtractRun("none", "",
                       <<"ZipFile", "namelist", "select", "count", "open",
                         "read">>, sel, i, extract_read(es, i, es[sel].name))

\* the body of the try statement (api.py:138-165)
extract_try(zip_data, file_name) ==
    IF zip_data.corrupt
    THEN ExtractRun("BadZipFile", "File is not a zip file",
                    <<"ZipFile">>, 0, 0, NoPayload)
    ELSE IF Len(zip_data.entries) < 2
    THEN ExtractRun("DownloadError",
                    "Expected at least 2 files in the archive",
                    <<"ZipFile", "namelist", "count">>, 0, 0, NoPayload)
    ELSE
      LET es == zip_data.entries
          sel == SelectIndex(es, file_name)
          data_file == es[sel].name
          i == OpenIndex(es, data_file)
      IN  IF ~es[i].content_ok
          THEN ExtractRun(ReadError(data_file), "decoding failed",
                   <<"ZipFile", "namelist", "count", "select", "open",
                     "read">>, sel, i, NoPayload)
          ELSE ExtractRun("none", "",
                   <<"ZipFile", "namelist", "count", "select", "open",
                     "read">>, sel, i, extract_read(es, i, data_file))

\* what _extract_zip_data raises: the kind and the two parts of the message
ExtractError(k, prefix, detail) ==
    [kind |-> k, prefix |-> prefix, detail |-> detail]

\* the except clauses with only the first one: other errors pass
extract_except_zip_only(exc, detail) ==
    IF exc = "BadZipFile"
    THEN ExtractError("DownloadError", "Invalid zip file", detail)
    ELSE ExtractError(exc, "", detail)

\* the except clauses (api.py:166-169), tried in order
extract_except(exc, detail) ==
    IF exc = "BadZipFile"
    THEN ExtractError("DownloadError", "Invalid zip file", detail)
    ELSE IF ExceptException(exc)
    THEN ExtractError("DownloadError", "Error extracting data", detail)
    ELSE ExtractError(exc, "", detail)

\* api.py:137-169: the payload returned, or the error raised
_extract_zip_data(zip_data, file_name) ==
    LET t == extract_try(zip_data, file_name)
    IN  IF t.exc = "none" THEN Returned(t.payload)
        ELSE Raised(extract_except(t.exc, t.detail).kind)

\* the body of the try statement up to the decoding (api.py:112-117): the
\* exception raised, or "decode" when _extract_zip_data is called
download_try(r) ==
    IF r.fail # "none" THEN "Exception"
    ELSE IF r.http >= HttpErrorMin THEN "DownloadError"
    ELSE "decode"

\* the except clauses without the last one: only DownloadError is handled
download_except_narrow(exc) == Raised(exc)

\* the except clauses (api.py:119-122)
download_except(exc) ==
    IF exc = "DownloadError" THEN Raised("DownloadError")
    ELSE IF ExceptException(exc) THEN Raised("DownloadError")
    ELSE Raised(exc)

\* api.py:110-122: the payload returned, or the error raised
download_snapshot(r, file_name) ==
    LET t == download_try(r)
    IN  IF t # "decode" THEN download_except(t)
        ELSE LET o == _extract_zip_data(r.archive, file_name)
             IN  IF o.kind = "return" THEN o ELSE download_except(o.kind)

----------------------------------------------------------------------------
(* api.py: get_osm_data *)

\* NoTaskLink as "task_link is None": an empty link passes
NoTaskLink_none_only(body) == body.track_link \in {ABSENT, NULL}

\* not task_link (api.py:214-215)
NoTaskLink(body) == body.track_link \in {ABSENT, NULL, ""}

\* a truthy value of a JSON member
Truthy(v) == v \notin {ABSENT, NULL, ""}

\* after_poll without the test of the status: any download_url is fetched
after_poll_any_url(result) ==
    IF result.result_kind = "object" /\ Truthy(result.download_url)
    THEN Outcome("download", 0, EmptyBody, ABSENT, ABSENT, NoPayload)
    ELSE Outcome("DownloadError", 0, EmptyBody, result.status, ABSENT,
                 NoPayload)

\* api.py:222-230, for the answer poll_task_status returned: "download", or
\* the outcome raised
after_poll(result) ==
    IF result.status = "SUCCESS" /\ result.result_kind = "absent"
    THEN Raised("KeyError")
    ELSE IF result.status = "SUCCESS" /\ result.result_kind = "null"
    THEN Raised("AttributeError")
    ELSE IF result.status = "SUCCESS" /\ Truthy(result.download_url)
    THEN Outcome("download", 0, EmptyBody, ABSENT, ABSENT, NoPayload)
    ELSE IF result.result_kind = "null"
    THEN Raised("AttributeError")
    ELSE Outcome("DownloadError", 0, EmptyBody, result.status,
                 IF result.result_kind = "object" /\ Truthy(result.error_msg)
                 THEN result.error_msg ELSE ABSENT,
                 NoPayload)

----------------------------------------------------------------------------
(* cli.py: main.run, the command-line run that makes the call *)

\* the state of the run: where it is ("idle" before get_osm_data is called,
\* "call" while it awaits it, "exit" when run has returned, "escaped" when
\* an exception has left run), whether --split was given, how the save and
\* the split ended, the messages printed so far, and the status returned
Cli(p, sp, sv, tl, pr, st) ==
    [pc |-> p, split |-> sp, save |-> sv, tiles |-> tl, printed |-> pr,
     status |-> st]

\* no command-line run: get_osm_data is called from a program
NoCli == Cli("none", FALSE, "none", "none", <<>>, "none")

----------------------------------------------------------------------------
(* The call as a state machine.  A step runs the code from one suspension  *)
(* point (an await of a network operation or of the sleep) to the next.    *)

\* the state of a call that is not there
NoFrame == [pc |-> "none"]

Init ==
    /\ pc = "start"
    /\ geometry \in GeometryInputs
    /\ kwargs \in KwargsInputs
    /\ geometry_input = NoGeometryInput
    /\ params = NoParams
    /\ log = <<>>
    /\ submit_resp = NoSubmitResp
    /\ fetched = <<>>
    /\ dl_resp = NoDownloadResp
    /\ poll_end = "none"
    /\ decoded = FALSE
    /\ zip_run = NoExtractRun
    /\ cancelled = FALSE
    /\ sessions = {}
    /\ outcome = NoOutcome
    /\ slept = <<>>
    /\ other = NoFrame
    /\ cur = 1
    /\ cli = NoCli

\* api.py:47, 77, 110: "async with ClientSession() as session" makes a new
\* session on entry; it is named by the operation that opens it and by the
\* place in the log of the first request sent through it
ClientSession(op, l) == [op |-> op, at |-> Len(l) + 1]

\* a scope that stays open when a cancellation leaves it
Finish_open_on_cancel(o) ==
    /\ pc' = "done"
    /\ outcome' = o
    /\ sessions' = IF o.kind = "CancelledError" THEN sessions ELSE {}

\* the call ends: every "async with ClientSession()" scope it is in is left
Finish(o) ==
    /\ pc' = "done"
    /\ outcome' = o
    /\ sessions' = {}

\* api.py:204-211: validation, then the submission is sent
Start ==
    /\ pc = "start"
    /\ LET g == from_input(geometry)
           p == from_kwargs(kwargs)
       IN  IF g.tag # "ok"
           THEN /\ Finish(Raised(g.tag))
                /\ UNCHANGED <<geometry_input, params, log>>
           ELSE IF p.tag # "ok"
           THEN /\ geometry_input' = g
                /\ Finish(Raised(p.tag))
                /\ UNCHANGED <<params, log>>
           ELSE /\ geometry_input' = g
                /\ params' = p
                /\ log' = Append(log, "submit")
                /\ pc' = "submit"
                /\ sessions' = {ClientSession("submit", log)}
                /\ UNCHANGED outcome
    /\ UNCHANGED <<geometry, kwargs, submit_resp, fetched, dl_resp, poll_end,
                   decoded, zip_run, cancelled>>
    /\ UNCHANGED <<slept, other, cur, cli>>

\* api.py:49-61, 211-219: the submission is answered; with a task link the
\* first status fetch is sent
SubmitRespond ==
    /\ pc = "submit"
    /\ \E r \in SubmitResponses :
         /\ submit_resp' = r
         /\ LET o == request_snapshot(r)
            IN  IF o.kind # "return"
                THEN /\ Finish(o)
                     /\ UNCHANGED log
                ELSE IF NoTaskLink(o.response_data)
                THEN /\ Finish(Raised("TaskPollingError"))
                     /\ UNCHANGED log
                ELSE /\ log' = Append(log, "fetch")
                     /\ pc' = "poll_fetch"
                     /\ sessions' = {ClientSession("poll", log)}
                     /\ UNCHANGED outcome
    /\ UNCHANGED <<geometry, kwargs, geometry_input, params, fetched, dl_resp,
                   poll_end, decoded, zip_run, cancelled>>
    /\ UNCHANGED <<slept, other, cur, cli>>

\* api.py:80-94, 219-230: a status fetch is answered
FetchRespond ==
    /\ pc = "poll_fetch"
    /\ \E r \in StatusResponses :
         /\ IsPendingAnswer(r) => Len(fetched) < MaxPolls
         /\ fetched' = Append(fetched, r)
         /\ LET t == poll_step(r)
            IN  CASE t = "sleep" ->
                       /\ log' = Append(log, "sleep")
                       /\ slept' = Append(slept, sleep_duration(slept))
                       /\ pc' = "poll_sleep"
                       /\ UNCHANGED <<poll_end, sessions, outcome>>
                  [] t = "return" ->
                       /\ poll_end' = "returned"
                       /\ UNCHANGED slept
                       /\ LET o == after_poll(r)
                          IN  IF o.kind = "download"
                              THEN /\ log' = Append(log, "download")
                                   /\ pc' = "download"
                                   /\ sessions' = {ClientSession("download", log)}
                                   /\ UNCHANGED outcome
                              ELSE /\ Finish(o)
                                   /\ UNCHANGED log
                  [] OTHER ->
                       /\ poll_end' = t
                       /\ Finish(Raised(t))
                       /\ UNCHANGED <<log, slept>>
    /\ UNCHANGED <<geometry, kwargs, geometry_input, params, submit_resp,
                   dl_resp, decoded, zip_run, cancelled>>
    /\ UNCHANGED <<other, cur, cli>>

\* api.py:90, 78-80: the sleep is over and the next status fetch is sent
SleepDone ==
    /\ pc = "poll_sleep"
    /\ LET nxt == poll_after_sleep(log)
       IN  /\ pc' = nxt.pc
           /\ log' = nxt.log
    /\ UNCHANGED <<geometry, kwargs, geometry_input, params, submit_resp,
                   fetched, dl_resp, poll_end, decoded, zip_run, cancelled,
                   sessions, outcome>>
    /\ UNCHANGED <<slept, other, cur, cli>>

\* api.py:112-122, 224: the download is answered
DownloadRespond ==
    /\ pc = "download"
    /\ \E r \in DownloadResponses :
         /\ dl_resp' = r
         /\ decoded' = (download_try(r) = "decode")
         /\ zip_run' = IF download_try(r) = "decode"
                       THEN extract_try(r.archive, params.file_name)
                       ELSE zip_run
         /\ Finish(download_snapshot(r, params.file_name))
    /\ UNCHANGED <<geometry, kwargs, geometry_input, params, log, submit_resp,
                   fetched, poll_end, cancelled>>
    /\ UNCHANGED <<slept, other, cur, cli>>

\* the except clauses that enclose the suspension point at p
cancel_outcome(p) ==
    IF p = "submit" THEN snapshot_except("CancelledError", NoSubmitResp)
    ELSE IF p = "download" THEN download_except("CancelledError")
    ELSE Raised(poll_except("CancelledError"))

\* the call is cancelled while it waits at a suspension point:
\* CancelledError is raised at the await
Cancel ==
    /\ pc \in {"submit", "poll_fetch", "poll_sleep", "download"}
    /\ cancelled' = TRUE
    /\ poll_end' = IF pc \in {"poll_fetch", "poll_sleep"}
                   THEN poll_except("CancelledError") ELSE poll_end
    /\ Finish(cancel_outcome(pc))
    /\ UNCHANGED <<geometry, kwargs, geometry_input, params, log, submit_resp,
                   fetched, dl_resp, decoded, zip_run>>
    /\ UNCHANGED <<slept, other, cur, cli>>

Next ==
    \/ Start
    \/ SubmitRespond
    \/ FetchRespond
    \/ SleepDone
    \/ DownloadRespond
    \/ Cancel

Spec == Init /\ [][Next]_vars

\* the service answers every request and the event loop resumes the call
\* when an answer or the end of a sleep is due; a cancellation need not come
FairSpec ==
    /\ Spec
    /\ WF_vars(Start)
    /\ WF_vars(SubmitRespond)
    /\ WF_vars(FetchRespond)
    /\ WF_vars(SleepDone)
    /\ WF_vars(DownloadRespond)

----------------------------------------------------------------------------
(* Properties *)

Count(l, x) == Cardinality({i \in 1..Len(l) : l[i] = x})
Last(l) == l[Len(l)]
Polling == pc \in {"poll_fetch", "poll_sleep"}
Validated == params.tag = "ok"

\* the submission returned a response with a track link
SubmitGaveLink ==
    /\ submit_resp.fail = "none"
    /\ submit_resp.http < HttpErrorMin
    /\ submit_resp.body.track_link \notin {ABSENT, NULL, ""}

\* an answer with status SUCCESS and a non-empty download_url
SuccessWithUrl(r) ==
    /\ r.fail = "none"
    /\ r.http < HttpErrorMin
    /\ r.status = "SUCCESS"
    /\ r.result_kind = "object"
    /\ r.download_url \notin {ABSENT, NULL, ""}

\* C1: the network operations of a call come in the order submit, status
\* fetches, download: the first operation is the one submit (a call that
\* passed validation has issued exactly one), a status fetch is issued only
\* after the submit returned a response with a track link, at most one
\* download is issued, it is the last operation, and it is issued only after
\* a status fetch returned SUCCESS with a non-empty download_url.
C1_OperationOrder ==
    /\ Count(log, "submit") = (IF Validated THEN 1 ELSE 0)
    /\ log # <<>> => log[1] = "submit"
    /\ Count(log, "fetch") > 0 => SubmitGaveLink
    /\ Count(log, "download") <= 1
    /\ \A i \in 1..Len(log) :
         log[i] = "download" =>
           /\ i = Len(log)
           /\ Count(log, "fetch") = Len(fetched)
           /\ fetched # <<>>
           /\ SuccessWithUrl(Last(fetched))

C1_Witness ==
    /\ pc = "done"
    /\ outcome.kind = "return"
    /\ log = <<"submit", "fetch", "sleep", "fetch", "download">>

\* the validation rejects the arguments of the call
InvalidInput ==
    from_input(geometry).tag # "ok" \/ from_kwargs(kwargs).tag # "ok"

\* C2 (as claimed): a call whose geometry or parameters are invalid fails
\* with ValidationError and has issued no network operation.
C2_InvalidInputIsValidationError ==
    (pc = "done" /\ InvalidInput) =>
        /\ outcome.kind = "ValidationError"
        /\ log = <<>>

\* an answer that is neither a failure nor terminal: any other status value
OtherStatus(r) ==
    /\ r.fail = "none"
    /\ r.http < HttpErrorMin
    /\ r.status \notin {ABSENT, "SUCCESS", "FAILED"}

ExactlyTerminal(r) ==
    /\ r.fail = "none"
    /\ r.http < HttpErrorMin
    /\ r.status \in {"SUCCESS", "FAILED"}

\* C3: poll_task_status returns only on an answer whose status is exactly
\* SUCCESS or FAILED, which is the first such answer and the last one
\* fetched; every answer with another status is followed by a sleep and the
\* next fetch; and it never gives up by itself: after an answer with another
\* status the poll is still running unless it was cancelled.
C3_PollReturnsFirstTerminal ==
    /\ poll_end = "returned" =>
         /\ fetched # <<>>
         /\ ExactlyTerminal(Last(fetched))
    /\ \A i \in 1..(Len(fetched) - 1) : OtherStatus(fetched[i])
    /\ Count(log, "sleep") =
         Cardinality({i \in 1..Len(fetched) : OtherStatus(fetched[i])})
    /\ \A i \in 1..Len(log) :
         log[i] = "sleep" =>
           /\ log[i - 1] = "fetch"
           /\ i < Len(log) => log[i + 1] = "fetch"
    /\ (fetched # <<>> /\ OtherStatus(Last(fetched))) =>
         \/ pc = "poll_sleep" /\ Last(log) = "sleep"
         \/ pc = "poll_fetch" /\ Count(log, "fetch") = Len(fetched) + 1
         \/ cancelled /\ poll_end = "CancelledError"

C3_Witness ==
    /\ poll_end = "returned"
    /\ Len(fetched) = 3
    /\ fetched[1].status = "success"
    /\ fetched[2].status = "RUNNING"
    /\ fetched[3].status = "FAILED"

\* how the poll loop may have ended
PollEndedProperly ==
    \/ poll_end = "returned" /\ ExactlyTerminal(Last(fetched))
    \/ poll_end = "TaskPollingError" /\ outcome.kind = "TaskPollingError"
         /\ ~ExactlyTerminal(Last(fetched)) /\ ~OtherStatus(Last(fetched))
    \/ poll_end = "CancelledError" /\ cancelled

\* C4: with the status fetches answered and the call resumed after each
\* answer and each sleep, the poll loop, once entered, ends; and it ends
\* only by a terminal answer, by a TaskPollingError for a failed fetch, or
\* by cancellation.  (The service answers at most MaxPolls fetches with a
\* pending status.)
C4_PollTerminates ==
    /\ Polling ~> ~Polling
    /\ [](Count(log, "fetch") > 0 /\ ~Polling => PollEndedProperly)
    /\ [](Polling => poll_end = "none")

C4_Witness ==
    /\ poll_end = "returned"
    /\ ~cancelled
    /\ Count(log, "sleep") = MaxPolls

\* C5: once a cancellation was delivered to a call that waits in a status
\* fetch or in the sleep (or in the submit or the download), the call has
\* ended with CancelledError, not with TaskPollingError, and it starts no
\* further fetch, sleep or download.
C5_CancelStopsTheCall ==
    /\ [](cancelled => pc = "done" /\ outcome.kind = "CancelledError")
    /\ [](cancelled /\ Count(log, "fetch") > 0 /\ Count(log, "download") = 0
            => poll_end = "CancelledError")
    /\ [][cancelled => UNCHANGED <<log, fetched, pc>>]_vars

C5_Witness ==
    /\ cancelled
    /\ pc = "done"
    /\ Len(log) >= 3
    /\ Last(log) = "sleep"

C5_WitnessInFetch ==
    /\ cancelled
    /\ Last(log) = "fetch"
    /\ Count(log, "sleep") > 0

\* the submission was answered with an HTTP status and a parsed JSON body
SubmitAnswered == submit_resp.fail = "none"

\* C6 (as claimed): a submission answered with HTTP status s >= 400 and the
\* parsed body b raises APIRequestError with status_code = s and
\* response_data = b.
C6_HttpErrorCarriesStatusAndBody ==
    (pc = "done" /\ SubmitAnswered /\ submit_resp.http >= HttpErrorMin) =>
        /\ outcome.kind = "APIRequestError"
        /\ outcome.status_code = submit_resp.http
        /\ outcome.response_data = submit_resp.body

\* C7 (as claimed): a transport-level failure of the submission raises
\* APIRequestError with status_code 0 and an empty body, and an
\* APIRequestError carries status_code 0 only for such a failure.
C7_StatusZeroIffTransportFailure ==
    (pc = "done" /\ submit_resp.fail # "unset") =>
        /\ submit_resp.fail = "transport" =>
             /\ outcome.kind = "APIRequestError"
             /\ outcome.status_code = 0
             /\ outcome.response_data = EmptyBody
        /\ (outcome.kind = "APIRequestError" /\ outcome.status_code = 0) =>
             submit_resp.fail = "transport"

TerminalNonSuccess(r) ==
    \/ r.status = "FAILED"
    \/ r.status = "SUCCESS" /\ r.download_url \in {ABSENT, NULL}

\* C9 (as claimed): when the poll ends with FAILED, or with SUCCESS and no
\* download_url (absent or null), the call raises DownloadError whose message
\* quotes the terminal status and the error_msg if there is one, and no
\* download is issued.
C9_TerminalNonSuccessIsDownloadError ==
    (poll_end = "returned" /\ TerminalNonSuccess(Last(fetched))) =>
        /\ pc = "done"
        /\ outcome.kind = "DownloadError"
        /\ outcome.msg_status = Last(fetched).status
        /\ Last(fetched).error_msg # ABSENT =>
             outcome.msg_error = Last(fetched).error_msg
        /\ Count(log, "download") = 0

\* C10: the download issues one GET and is never retried; an answer with
\* HTTP status >= 400 raises DownloadError and the body is not decoded; a
\* failure of the fetch or of the decoding raises DownloadError too, so a
\* download that was answered ends in a decoded payload or in DownloadError.
C10_DownloadFailsAsDownloadError ==
    /\ Count(log, "download") <= 1
    /\ pc = "download" => Count(log, "download") = 1 /\ dl_resp.fail = "unset"
    /\ dl_resp.fail # "unset" =>
         /\ pc = "done"
         /\ Count(log, "download") = 1
         /\ Last(log) = "download"
         /\ outcome.kind \in {"return", "DownloadError"}
         /\ (dl_resp.fail = "none" /\ dl_resp.http >= HttpErrorMin) =>
              outcome.kind = "DownloadError" /\ ~decoded
         /\ dl_resp.fail = "transport" =>
              outcome.kind = "DownloadError" /\ ~decoded
         /\ outcome.kind = "return" =>
              /\ decoded
              /\ outcome.payload.kind \in {"geojson", "csv", "binary"}
              /\ ~dl_resp.archive.corrupt
         /\ (decoded /\ dl_resp.archive.corrupt) =>
              outcome.kind = "DownloadError"

C10_Witness ==
    /\ pc = "done"
    /\ dl_resp.fail = "none"
    /\ dl_resp.http = 500
    /\ outcome.kind = "DownloadError"

C10_WitnessDecodeFails ==
    /\ pc = "done"
    /\ decoded
    /\ Len(dl_resp.archive.entries) = 2
    /\ outcome.kind = "DownloadError"


----------------------------------------------------------------------------
(* The archive decoder alone: _extract_zip_data applied to the bytes of    *)
(* one download and a file-name hint.                                      *)

\* a listing of the decoder's input has at most this many entries
MaxListing == 3

N_README == <<"R","E","A","D","M","E">>

\* a readable csv entry with the rows of its text
CsvEntry(n, rows) == [name |-> n, content_ok |-> TRUE, rows |-> rows]

CsvTexts ==
    { << <<"a", "b">>, <<"1", "2">>, <<"3", "4">> >>,
      << <<"a", "b">>, <<"3">>, <<>>, <<"1", "2">> >> }

DecoderEntries ==
    { Entry(N_data_geojson, TRUE), Entry(N_data_geojson, FALSE),
      Entry(N_a_csv, FALSE),
      Entry(N_meta_txt, TRUE), Entry(N_meta_txt, FALSE),
      Entry(N_README, TRUE) }
      \cup {CsvEntry(N_a_csv, t) : t \in CsvTexts}

RECURSIVE DecoderListings(_)
DecoderListings(n) ==
    IF n = 0 THEN {<<>>}
    ELSE DecoderListings(n - 1)
           \cup {Append(l, e) :
                   l \in {x \in DecoderListings(n - 1) : Len(x) = n - 1},
                   e \in DecoderEntries}

DecoderArchives ==
    {Archive(TRUE, <<>>)}
      \cup {Archive(FALSE, l) : l \in DecoderListings(MaxListing)}

\* the values of file_name the decoder is called with
Hints == {S_data, S_osm_export, S_csv, <<"a">>, <<>>}

DecoderInit ==
    /\ pc = "decode"
    /\ dl_resp \in {DownloadResp("none", 200, a) : a \in DecoderArchives}
    /\ params \in {ParamsResult("ok", h, "geojson") : h \in Hints}
    /\ geometry = GeometryArg("object", TRUE, GeoObject("Polygon", "ring"))
    /\ kwargs = Kwargs(None, None, None, None, FALSE)
    /\ geometry_input = NoGeometryInput
    /\ log = <<>>
    /\ submit_resp = NoSubmitResp
    /\ fetched = <<>>
    /\ poll_end = "none"
    /\ decoded = FALSE
    /\ zip_run = NoExtractRun
    /\ cancelled = FALSE
    /\ sessions = {}
    /\ outcome = NoOutcome
    /\ slept = <<>>
    /\ other = NoFrame
    /\ cur = 1
    /\ cli = NoCli

\* api.py:118: self._extract_zip_data(data, file_name)
Decode ==
    /\ pc = "decode"
    /\ decoded' = TRUE
    /\ zip_run' = extract_try(dl_resp.archive, params.file_name)
    /\ outcome' = _extract_zip_data(dl_resp.archive, params.file_name)
    /\ pc' = "done"
    /\ UNCHANGED <<geometry, kwargs, geometry_input, params, log, submit_resp,
                   fetched, dl_resp, poll_end, cancelled, sessions, slept,
                   other, cur, cli>>

DecoderSpec == DecoderInit /\ [][Decode]_vars

\* the decoder has run on a readable archive
Decoded == pc = "done" /\ decoded /\ ~dl_resp.archive.corrupt

\* the listing the decoder was given, and the hint
Listing == dl_resp.archive.entries
Hint == params.file_name

\* C11: an archive whose listing has fewer than two entries makes the
\* decoder fail with DownloadError, the message saying that at least 2 files
\* were expected, also when the only entry's name contains the hint; no
\* entry is selected, opened or read before the count is checked
C11_FewEntriesIsDownloadError ==
    (Decoded /\ Len(Listing) < 2) =>
        /\ outcome.kind = "DownloadError"
        /\ outcome.payload = NoPayload
        /\ extract_except(zip_run.exc, zip_run.detail).detail
             = "Expected at least 2 files in the archive"
        /\ zip_run.selected = 0
        /\ zip_run.opened = 0
        /\ \A i \in 1..Len(zip_run.steps) :
             zip_run.steps[i] \notin {"select", "open", "read"}

\* an archive of one entry whose name contains the hint was refused
C11_Witness ==
    /\ Decoded
    /\ Len(Listing) = 1
    /\ Hint # <<>>
    /\ Contains(Hint, Listing[1].name)
    /\ Listing[1].content_ok
    /\ outcome.kind = "DownloadError"

\* the listing positions whose name contains the hint
Matches == {i \in 1..Len(Listing) : Contains(Hint, Listing[i].name)}

\* C12: from a listing of at least two entries the decoder selects the
\* first entry, in listing order, whose name contains the hint; when no
\* name contains it, the entry at index 1 (the second one listed)
C12_SelectsFirstMatchElseSecond ==
    (Decoded /\ Len(Listing) >= 2) =>
        LET s == zip_run.selected
        IN  /\ s \in 1..Len(Listing)
            /\ Matches # {} => (s \in Matches /\ \A k \in Matches : s <= k)
            /\ Matches = {} => s = 2

\* a later entry was selected because it is the first that matches
C12_Witness ==
    /\ Decoded
    /\ Len(Listing) = 3
    /\ Matches = {3}
    /\ zip_run.selected = 3
    /\ outcome.kind = "return"

\* nothing matched and the second entry was decoded
C12_WitnessFallback ==
    /\ Decoded
    /\ Len(Listing) = 3
    /\ Matches = {}
    /\ zip_run.selected = 2
    /\ outcome.kind = "return"

\* the part of a name after its last dot
Extension(n) ==
    LET last == CHOOSE i \in 1..Len(n) :
                  n[i] = "." /\ \A k \in (i + 1)..Len(n) : n[k] # "."
    IN  SubSeq(n, last + 1, Len(n))

\* the rows of a csv text that hold data: all but the first and the blank
DataRows(rows) ==
    IF rows = <<>> THEN <<>>
    ELSE SelectSeq(Tail(rows), LAMBDA r : r # <<>>)

\* C13: the payload is decoded from the selected entry and its kind follows
\* from the extension of that entry's name alone: .geojson gives the parsed
\* object, .csv the row mappings in the order of the rows, every other name
\* the triple of the extension, the entry's bytes and the entry's name
C13_PayloadByExtension ==
    (Decoded /\ outcome.kind = "return") =>
        LET s == zip_run.selected
            n == Listing[s].name
            pl == outcome.payload
        IN  /\ pl.entry = s
            /\ EndsWith(n, S_geojson) => pl.kind = "geojson"
            /\ (~EndsWith(n, S_geojson) /\ EndsWith(n, S_csv)) =>
                 /\ pl.kind = "csv"
                 /\ Len(pl.rows) = Len(DataRows(Listing[s].rows))
                 /\ \A k \in 1..Len(pl.rows) :
                      \A j \in 1..Len(DataRows(Listing[s].rows)[k]) :
                        pl.rows[k][Head(Listing[s].rows)[j]]
                          = DataRows(Listing[s].rows)[k][j]
            /\ (~EndsWith(n, S_geojson) /\ ~EndsWith(n, S_csv)) =>
                 /\ pl.kind = "binary"
                 /\ pl.file_name = n
                 /\ (\E i \in 1..Len(n) : n[i] = ".")
                      => pl.format = Extension(n)

\* C14: the decoder returns a payload decoded from a readable entry of a
\* readable archive, or raises DownloadError; a corrupt archive and an
\* entry that cannot be decoded give DownloadError, never another error and
\* never a payload
C14_PayloadOrDownloadError ==
    (pc = "done" /\ decoded) =>
        /\ outcome.kind \in {"return", "DownloadError"}
        /\ outcome.kind = "DownloadError" => outcome.payload = NoPayload
        /\ outcome.kind = "return" =>
             /\ ~dl_resp.archive.corrupt
             /\ outcome.payload.kind \in {"geojson", "csv", "binary"}
             /\ outcome.payload.entry \in 1..Len(Listing)
             /\ Listing[outcome.payload.entry].content_ok
        /\ dl_resp.archive.corrupt => outcome.kind = "DownloadError"
        /\ (zip_run.opened # 0 /\ ~Listing[zip_run.opened].content_ok)
             => outcome.kind = "DownloadError"

\* the entry selected could not be decoded
C14_Witness ==
    /\ Decoded
    /\ zip_run.exc = "JSONDecodeError"
    /\ outcome.kind = "DownloadError"

\* the bytes were not a zip archive
C14_WitnessCorrupt ==
    /\ pc = "done"
    /\ decoded
    /\ dl_resp.archive.corrupt
    /\ zip_run.exc = "BadZipFile"
    /\ outcome.kind = "DownloadError"

----------------------------------------------------------------------------
(* The validators alone: the first step of get_osm_data (api.py:204-205)   *)
(* over a wide range of arguments.                                         *)

\* a FeatureCollection of the validators' input has at most this many features
MaxFeatures == 2

GeoTypes ==
    {ABSENT, "Polygon", "MultiPolygon", "Point", "LineString", "polygon",
     "FeatureCollection"}
GeoCoordinates == {ABSENT, NULL, "ring"}

WideFeatures ==
    {Feature("absent", ABSENT, ABSENT), Feature("null", ABSENT, ABSENT)}
      \cup {Feature("object", t, c) :
              t \in {ABSENT, "Polygon", "MultiPolygon", "Point"},
              c \in {ABSENT, "ring"}}

RECURSIVE FeatureLists(_)
FeatureLists(n) ==
    IF n = 0 THEN {<<>>}
    ELSE FeatureLists(n - 1)
           \cup {Append(l, f) :
                   l \in {x \in FeatureLists(n - 1) : Len(x) = n - 1},
                   f \in WideFeatures}

WideGeometries ==
    {GeometryArg("text_bad", FALSE, GeoObject(ABSENT, ABSENT))}
      \cup {GeometryArg(k, FALSE, GeoObject(ABSENT, ABSENT)) :
              k \in {"text", "object"}}
      \cup {GeometryArg(k, TRUE, GeoObject(t, c)) :
              k \in {"text", "object"}, t \in GeoTypes, c \in GeoCoordinates}
      \cup {GeometryArg(k, TRUE, Collection(fs)) :
              k \in {"text", "object"}, fs \in FeatureLists(MaxFeatures)}

\* the state in which get_osm_data is entered with geometry g, keywords kw
CallInit(g, kw) ==
    /\ pc = "start"
    /\ geometry = g
    /\ kwargs = kw
    /\ geometry_input = NoGeometryInput
    /\ params = NoParams
    /\ log = <<>>
    /\ submit_resp = NoSubmitResp
    /\ fetched = <<>>
    /\ dl_resp = NoDownloadResp
    /\ poll_end = "none"
    /\ decoded = FALSE
    /\ zip_run = NoExtractRun
    /\ cancelled = FALSE
    /\ sessions = {}
    /\ outcome = NoOutcome
    /\ slept = <<>>
    /\ other = NoFrame
    /\ cur = 1
    /\ cli = NoCli

GeometryInit ==
    \E g \in WideGeometries : CallInit(g, Kwargs(None, None, None, None, FALSE))

GeometrySpec == GeometryInit /\ [][Start]_vars

\* the geometry argument is a FeatureCollection with at least one feature
IsCollection ==
    /\ geometry.kind # "text_bad"
    /\ geometry.mapping
    /\ geometry.value.type = "FeatureCollection"
    /\ geometry.value.has_features
    /\ Len(geometry.value.features) >= 1

\* the first feature of the collection has a "geometry" member
FirstHasGeometry ==
    IsCollection /\ geometry.value.features[1].gkind # "absent"

\* the geometry that is validated is a JSON object
TargetIsObject ==
    /\ geometry.kind # "text_bad"
    /\ geometry.mapping
    /\ FirstHasGeometry => geometry.value.features[1].gkind = "object"

\* the "type" and "coordinates" members of the geometry that is validated
TargetType ==
    IF ~TargetIsObject THEN ABSENT
    ELSE IF FirstHasGeometry THEN geometry.value.features[1].type
    ELSE geometry.value.type
TargetCoordinates ==
    IF ~TargetIsObject THEN ABSENT
    ELSE IF FirstHasGeometry THEN geometry.value.features[1].coordinates
    ELSE geometry.value.coordinates

\* from_input has run and failed with ValidationError
GeometryRejected ==
    /\ pc = "done"
    /\ geometry_input = NoGeometryInput
    /\ outcome.kind = "ValidationError"

\* C15: from_input fails with ValidationError when the string does not
\* parse, when the type member is absent, when the coordinates member is
\* absent and when the type is neither Polygon nor MultiPolygon; when it
\* succeeds the result carries the type and coordinates of the input
C15_GeometryValidation ==
    (pc # "start") =>
        /\ geometry.kind = "text_bad" => GeometryRejected
        /\ TargetType = ABSENT => GeometryRejected
        /\ TargetCoordinates = ABSENT => GeometryRejected
        /\ TargetType \notin {"Polygon", "MultiPolygon"} => GeometryRejected
        /\ ~GeometryRejected =>
             /\ geometry_input.tag = "ok"
             /\ geometry_input.type = TargetType
             /\ geometry_input.coordinates = TargetCoordinates

\* C16: for a FeatureCollection with at least one feature the result is a
\* success with the first feature's geometry or a ValidationError, it is
\* the result of validating the first feature's geometry alone, and it does
\* not depend on the other features
C16_FirstFeatureOnly ==
    (pc # "start" /\ IsCollection) =>
        LET fs == geometry.value.features
            alone == from_input(GeometryArg("object", fs[1].gkind = "object",
                                    GeoObject(fs[1].type, fs[1].coordinates)))
            res == IF pc = "done" THEN GeomResult(outcome.kind, ABSENT, ABSENT)
                   ELSE geometry_input
        IN  /\ res.tag \in {"ok", "ValidationError"}
            /\ fs[1].gkind # "absent" => res.tag = alone.tag
            /\ res.tag = "ok" =>
                 /\ res.type = fs[1].type
                 /\ res.coordinates = fs[1].coordinates
            /\ \A rest \in FeatureLists(MaxFeatures - 1) :
                 from_input(GeometryArg(geometry.kind, TRUE,
                                        Collection(<<fs[1]>> \o rest)))
                   = IF pc = "done" THEN GeomResult(outcome.kind, ABSENT, ABSENT)
                     ELSE geometry_input

\* the values given for the output type: the accepted ones and some others
OutputValues ==
    VALID_OUTPUT_TYPES \cup {"invalid_format", "GeoJSON", "", NULL}

WideKwargs ==
    {Kwargs(fn, ot, sfn, sot, u) :
        fn \in {None, Some(S_data)},
        ot \in {None} \cup {Some(v) : v \in OutputValues},
        sfn \in {None, Some(S_csv)},
        sot \in {None} \cup {Some(v) : v \in OutputValues},
        u \in BOOLEAN}

ParamsInit ==
    \E kw \in WideKwargs :
        CallInit(GeometryArg("object", TRUE, GeoObject("Polygon", "ring")), kw)

ParamsSpec == ParamsInit /\ [][Start]_vars

\* the eight accepted output types
OutputEnum ==
    {"geojson", "shp", "kml", "mbtiles", "flatgeobuf", "csv", "geopackage",
     "pgdump"}

\* from_kwargs has run and failed with ValidationError
ParamsRejected ==
    /\ pc = "done"
    /\ params = NoParams
    /\ outcome.kind = "ValidationError"

\* from_kwargs has run and returned params with output type v
ParamsAccepted(v) ==
    /\ pc = "submit"
    /\ params.tag = "ok"
    /\ params.output_type = v

\* C17: an output type outside the eight accepted ones, given as outputType
\* or as output_type, makes from_kwargs fail with ValidationError; one of
\* the eight is accepted and kept; with no output type given the result has
\* output_type geojson, and with no file name given file_name osm_export.
\* When both spellings are given, output_type is the value that counts.
C17_OutputTypeEnum ==
    (pc # "start" /\ ~kwargs.unknown) =>
        LET camel == kwargs.outputType
            snake == kwargs.output_type
        IN  /\ (snake # None /\ snake[1] \notin OutputEnum) => ParamsRejected
            /\ (snake = None /\ camel # None /\ camel[1] \notin OutputEnum)
                 => ParamsRejected
            /\ (snake # None /\ snake[1] \in OutputEnum)
                 => ParamsAccepted(snake[1])
            /\ (snake = None /\ camel # None /\ camel[1] \in OutputEnum)
                 => ParamsAccepted(camel[1])
            /\ (snake = None /\ camel = None) => ParamsAccepted("geojson")
            /\ (~ParamsRejected /\ kwargs.fileName = None
                  /\ kwargs.file_name = None)
                 => params.file_name = S_osm_export

\* an output type outside the enum, given as outputType, was rejected
C17_Witness ==
    /\ ParamsRejected
    /\ ~kwargs.unknown
    /\ kwargs.output_type = None
    /\ kwargs.outputType = Some("invalid_format")

\* no keyword was given and the defaults were applied
C17_WitnessDefaults ==
    /\ kwargs = Kwargs(None, None, None, None, FALSE)
    /\ ParamsAccepted("geojson")
    /\ params.file_name = S_osm_export

----------------------------------------------------------------------------
(* Two calls of get_osm_data in one event loop.  The loop runs one call at *)
(* a time and may change to the other call wherever the running call is    *)
(* suspended.  The variables hold the state of the running call, other the *)
(* state of the suspended one.                                             *)

\* the state of the running call
Frame ==
    [pc |-> pc, geometry |-> geometry, kwargs |-> kwargs,
     geometry_input |-> geometry_input, params |-> params, log |-> log,
     submit_resp |-> submit_resp, fetched |-> fetched, dl_resp |-> dl_resp,
     poll_end |-> poll_end, decoded |-> decoded, zip_run |-> zip_run,
     cancelled |-> cancelled, sessions |-> sessions, outcome |-> outcome,
     slept |-> slept]

\* PerCall with the validated parameters kept in one place for all calls
PerCall_shared_params == DOMAIN Frame \ {"params"}

\* what a call keeps to itself: the arguments and locals of its coroutine
\* (api.py:171-230), among them its own RawDataAPI (api.py:208), and the
\* sessions its operations open (api.py:47, 77, 110)
PerCall == DOMAIN Frame

\* the value a variable named v takes when the loop changes to the other call
Resume(v, mine) == IF v \in PerCall THEN other[v] ELSE mine

\* the event loop changes to the other call
Switch ==
    /\ other # NoFrame
    /\ other' = [v \in DOMAIN Frame |->
                   IF v \in PerCall THEN Frame[v] ELSE other[v]]
    /\ cur' = 3 - cur
    /\ UNCHANGED cli
    /\ pc' = Resume("pc", pc)
    /\ geometry' = Resume("geometry", geometry)
    /\ kwargs' = Resume("kwargs", kwargs)
    /\ geometry_input' = Resume("geometry_input", geometry_input)
    /\ params' = Resume("params", params)
    /\ log' = Resume("log", log)
    /\ submit_resp' = Resume("submit_resp", submit_resp)
    /\ fetched' = Resume("fetched", fetched)
    /\ dl_resp' = Resume("dl_resp", dl_resp)
    /\ poll_end' = Resume("poll_end", poll_end)
    /\ decoded' = Resume("decoded", decoded)
    /\ zip_run' = Resume("zip_run", zip_run)
    /\ cancelled' = Resume("cancelled", cancelled)
    /\ sessions' = Resume("sessions", sessions)
    /\ outcome' = Resume("outcome", outcome)
    /\ slept' = Resume("slept", slept)

\* the arguments and the answers of the two calls
TwoGeometries ==
    { GeometryArg("object", TRUE, GeoObject("Polygon", "ring")),
      GeometryArg("object", TRUE, GeoObject("Point", "ring")) }
TwoKwargs ==
    { Kwargs(None, None, None, None, FALSE),
      Kwargs(Some(S_data), Some("csv"), None, None, FALSE) }
TwoSubmitResponses ==
    { SubmitResp("none", 200, Body("/tasks/1", ABSENT)),
      SubmitResp("none", 500, Body(ABSENT, "boom")) }
TwoStatusResponses ==
    { StatusResp("none", 200, "RUNNING", "absent", ABSENT, ABSENT),
      StatusResp("none", 200, "SUCCESS", "object", "https://dl/1.zip", ABSENT),
      StatusResp("none", 200, "FAILED", "object", ABSENT, "boom") }
TwoDownloadResponses ==
    { DownloadResp("none", 200,
          Archive(FALSE, <<Entry(N_data_geojson, TRUE), Entry(N_a_csv, TRUE)>>)),
      DownloadResp("none", 200, Archive(TRUE, <<>>)) }

\* the answers the running call has got are among those
TwoAnswers ==
    /\ submit_resp \in TwoSubmitResponses \cup {NoSubmitResp}
    /\ \A i \in 1..Len(fetched) : fetched[i] \in TwoStatusResponses
    /\ dl_resp \in TwoDownloadResponses \cup {NoDownloadResp}

\* the state of a call that is entered with geometry g and keywords kw
StartFrame(g, kw) ==
    [pc |-> "start", geometry |-> g, kwargs |-> kw,
     geometry_input |-> NoGeometryInput, params |-> NoParams, log |-> <<>>,
     submit_resp |-> NoSubmitResp, fetched |-> <<>>,
     dl_resp |-> NoDownloadResp, poll_end |-> "none", decoded |-> FALSE,
     zip_run |-> NoExtractRun, cancelled |-> FALSE, sessions |-> {},
     outcome |-> NoOutcome, slept |-> <<>>]

TwoInit ==
    /\ pc = "start"
    /\ geometry \in TwoGeometries
    /\ kwargs \in TwoKwargs
    /\ geometry_input = NoGeometryInput
    /\ params = NoParams
    /\ log = <<>>
    /\ submit_resp = NoSubmitResp
    /\ fetched = <<>>
    /\ dl_resp = NoDownloadResp
    /\ poll_end = "none"
    /\ decoded = FALSE
    /\ zip_run = NoExtractRun
    /\ cancelled = FALSE
    /\ sessions = {}
    /\ outcome = NoOutcome
    /\ slept = <<>>
    /\ other \in {StartFrame(g, kw) : g \in TwoGeometries, kw \in TwoKwargs}
    /\ cur = 1
    /\ cli = NoCli

TwoNext ==
    \/ Start /\ TwoAnswers'
    \/ SubmitRespond /\ TwoAnswers'
    \/ FetchRespond /\ TwoAnswers'
    \/ SleepDone /\ TwoAnswers'
    \/ DownloadRespond /\ TwoAnswers'
    \/ Cancel /\ TwoAnswers'
    \/ Switch

TwoSpec == TwoInit /\ [][TwoNext]_vars

RECURSIVE FetchLog(_)
\* the operations of a poll that has started n status fetches
FetchLog(n) ==
    IF n <= 1 THEN <<"fetch">> ELSE FetchLog(n - 1) \o <<"sleep", "fetch">>

\* the call with state f got as far as polling, and as far as the download
AlonePolls(f) ==
    /\ from_input(f.geometry).tag = "ok"
    /\ from_kwargs(f.kwargs).tag = "ok"
    /\ f.submit_resp # NoSubmitResp
    /\ request_snapshot(f.submit_resp).kind = "return"
    /\ ~NoTaskLink(f.submit_resp.body)
AloneDownloads(f) ==
    /\ AlonePolls(f)
    /\ Len(f.fetched) >= 1
    /\ poll_step(Last(f.fetched)) = "return"
    /\ after_poll(Last(f.fetched)).kind = "download"

\* what a call made alone with the arguments of f returns or raises when it
\* gets the answers f got and, if f was cancelled, is cancelled
AloneOutcome(f) ==
    LET g == from_input(f.geometry)
        p == from_kwargs(f.kwargs)
    IN  IF g.tag # "ok" THEN Raised(g.tag)
        ELSE IF p.tag # "ok" THEN Raised(p.tag)
        ELSE IF f.cancelled THEN Raised("CancelledError")
        ELSE IF request_snapshot(f.submit_resp).kind # "return"
        THEN request_snapshot(f.submit_resp)
        ELSE IF NoTaskLink(f.submit_resp.body) THEN Raised("TaskPollingError")
        ELSE IF poll_step(Last(f.fetched)) # "return"
        THEN Raised(poll_step(Last(f.fetched)))
        ELSE IF after_poll(Last(f.fetched)).kind # "download"
        THEN after_poll(Last(f.fetched))
        ELSE download_snapshot(f.dl_resp, p.file_name)

\* the network operations and sleeps of that call, in order; a call that was
\* cancelled while polling was cancelled in a fetch or in the sleep before it
AloneLogs(f) ==
    IF from_input(f.geometry).tag # "ok" \/ from_kwargs(f.kwargs).tag # "ok"
    THEN {<<>>}
    ELSE IF ~AlonePolls(f) THEN {<<"submit">>}
    ELSE IF f.cancelled /\ f.dl_resp = NoDownloadResp /\ ~AloneDownloads(f)
    THEN {<<"submit">> \o FetchLog(Len(f.fetched) + 1)}
           \cup {<<"submit">> \o FetchLog(Len(f.fetched)) \o <<"sleep">> :
                   x \in {y \in {1} : Len(f.fetched) >= 1}}
    ELSE IF AloneDownloads(f)
    THEN {<<"submit">> \o FetchLog(Len(f.fetched)) \o <<"download">>}
    ELSE {<<"submit">> \o FetchLog(Len(f.fetched))}

\* the call with state f has ended as it would have ended alone
RanAlone(f) ==
    f.pc = "done" =>
        /\ f.outcome = AloneOutcome(f)
        /\ f.log \in AloneLogs(f)

\* C18: whichever way the steps of two calls are interleaved at their
\* suspension points, each call issues the network operations and ends with
\* the outcome that it has when it runs alone with the same arguments and
\* the same answers of the service
C18_CallsAreIndependent == RanAlone(Frame) /\ RanAlone(other)

\* both calls have ended, each after steps of the other: one returned the
\* payload chosen by its own file name, the other failed
C18_Witness ==
    /\ pc = "done"
    /\ other.pc = "done"
    /\ outcome.kind = "return"
    /\ other.outcome.kind = "DownloadError"
    /\ kwargs # other.kwargs
    /\ Len(fetched) >= 2
    /\ Len(other.fetched) >= 2

----------------------------------------------------------------------------
(* The errors that leave get_osm_data *)

\* the submission failed: request_snapshot raised
SubmitFailed ==
    \/ submit_resp.fail \in {"transport", "response_error"}
    \/ submit_resp.fail = "none" /\ submit_resp.http >= HttpErrorMin

\* poll_task_status raised
PollRaised == poll_end \notin {"none", "returned"}

\* the download was answered: download_snapshot returned or raised
DownloadAnswered == dl_resp # NoDownloadResp

\* the call ended with an error and was not cancelled
EndedInError == pc = "done" /\ ~cancelled /\ outcome.kind # "return"

\* C19 (as claimed): an error raised by a component reaches the caller with
\* its kind (APIRequestError from the submission, TaskPollingError from the
\* polling, DownloadError from the download), and an error that no
\* component raised is one of the two the orchestrator creates:
\* TaskPollingError for a response without track link, DownloadError for a
\* poll that returned without a SUCCESS to download.
C19_ErrorsKeepTheirKind ==
    EndedInError =>
        /\ ~Validated => log = <<>>
        /\ SubmitFailed => outcome.kind = "APIRequestError"
        /\ PollRaised =>
             (outcome.kind = poll_end /\ poll_end = "TaskPollingError")
        /\ DownloadAnswered => outcome.kind = "DownloadError"
        /\ (Validated /\ ~SubmitFailed /\ ~PollRaised /\ ~DownloadAnswered) =>
             \/ /\ outcome.kind = "TaskPollingError"
                /\ fetched = <<>>
                /\ submit_resp.body.track_link \in {ABSENT, NULL, ""}
             \/ /\ outcome.kind = "DownloadError"
                /\ poll_end = "returned"
                /\ ~SuccessWithUrl(Last(fetched))

\* C20 (as claimed): an exception that leaves get_osm_data, unless it is the
\* cancellation, is a ValidationError, an APIRequestError, a
\* TaskPollingError or a DownloadError, each derived from OSMClientError.
C20_OnlyClientErrorsEscape ==
    EndedInError =>
        /\ outcome.kind \in {"ValidationError", "APIRequestError",
                             "TaskPollingError", "DownloadError"}
        /\ Base(outcome.kind) = "OSMClientError"

----------------------------------------------------------------------------
(* The command-line run (cli.py:89-133) around one call of get_osm_data *)

\* the inner except clause (cli.py:123-124) for an exception of the split:
\* the exception that is left, "none" when it was handled with a warning
cli_split_except(exc) == IF exc = "ImportError" THEN "none" ELSE exc

\* json.dump of the payload (file.py:18-19): bytes are not serializable; sv
\* is how the writing of the file ends otherwise
save_to_geojson(pl, sv) == IF pl.kind = "binary" THEN "TypeError" ELSE sv

\* what the statements after the call do (cli.py:115-124) with a payload:
\* how the save and the split ended, what was printed, and the exception
\* raised ("none" when line 133 is reached); sp is --split, tl is how
\* split_by_tiles ends
CliRun(sv, tl, pr, exc) == [save |-> sv, tiles |-> tl, printed |-> pr, exc |-> exc]

\* cli_after_call with the split made before the save
cli_after_call_split_first(pl, sp, sv, tl) ==
    IF sp /\ tl # "ok" /\ cli_split_except(tl) # "none"
    THEN CliRun("none", tl, <<"splitting">>, tl)
    ELSE LET pr == IF ~sp THEN <<>>
                   ELSE IF tl = "ok" THEN <<"splitting", "split">>
                   ELSE <<"splitting", "warning">>
             t == IF sp THEN tl ELSE "none"
             s == save_to_geojson(pl, sv)
         IN  IF s # "ok" THEN CliRun(s, t, pr, s)
             ELSE CliRun("ok", t, pr \o <<"saved">>, "none")

cli_after_call(pl, sp, sv, tl) ==
    LET s == save_to_geojson(pl, sv)
    IN  IF s # "ok" THEN CliRun(s, "none", <<>>, s)
        ELSE IF ~sp THEN CliRun("ok", "none", <<"saved">>, "none")
        ELSE IF tl = "ok"
        THEN CliRun("ok", tl, <<"saved", "splitting", "split">>, "none")
        ELSE IF cli_split_except(tl) = "none"
        THEN CliRun("ok", tl, <<"saved", "splitting", "warning">>, "none")
        ELSE CliRun("ok", tl, <<"saved", "splitting">>, tl)

\* how run ends: where, with which status, and the message printed last
CliEnd(p, st, msg) == [pc |-> p, status |-> st, printed |-> msg]

\* the outer except clauses with the last one missing
cli_except_client_only(exc) ==
    IF Base(exc) = "OSMClientError" THEN CliEnd("exit", 1, <<"Error">>)
    ELSE CliEnd("escaped", "none", <<>>)

\* the outer except clauses (cli.py:126-131), tried in order
cli_except(exc) ==
    IF Base(exc) = "OSMClientError" THEN CliEnd("exit", 1, <<"Error">>)
    ELSE IF ExceptException(exc)
    THEN CliEnd("exit", 1, <<"Unexpected error">>)
    ELSE CliEnd("escaped", "none", <<>>)

\* the keywords run passes (cli.py:100-110): outputType is --format
CliKwargs ==
    {Kwargs(Some(S_data), Some(fmt), None, None, FALSE) :
        fmt \in {"geojson", "shp"}}

CliInit ==
    /\ pc = "idle"
    /\ geometry \in GeometryInputs
    /\ kwargs \in CliKwargs
    /\ geometry_input = NoGeometryInput
    /\ params = NoParams
    /\ log = <<>>
    /\ submit_resp = NoSubmitResp
    /\ fetched = <<>>
    /\ dl_resp = NoDownloadResp
    /\ poll_end = "none"
    /\ decoded = FALSE
    /\ zip_run = NoExtractRun
    /\ cancelled = FALSE
    /\ sessions = {}
    /\ outcome = NoOutcome
    /\ slept = <<>>
    /\ other = NoFrame
    /\ cur = 1
    /\ cli \in {Cli("idle", sp, "none", "none", <<>>, "none") : sp \in BOOLEAN}

\* cli.py:90-113: the geometry is read and get_osm_data is called; reading
\* the geometry file may raise
CliStart ==
    /\ cli.pc = "idle"
    /\ \E read_ok \in BOOLEAN :
         IF read_ok
         THEN /\ cli' = [cli EXCEPT !.pc = "call",
                                    !.printed = <<"downloading">>]
              /\ pc' = "start"
         ELSE LET e == cli_except("JSONDecodeError")
              IN  /\ cli' = [cli EXCEPT !.pc = e.pc, !.status = e.status,
                                        !.printed = e.printed]
                  /\ UNCHANGED pc
    /\ UNCHANGED <<geometry, kwargs, geometry_input, params, log, submit_resp,
                   fetched, dl_resp, poll_end, decoded, zip_run, cancelled,
                   sessions, outcome, slept, other, cur>>

\* cli.py:113-133: get_osm_data has returned or raised; the payload is
\* saved and split, or the exception is handled, and run returns
CliFinish ==
    /\ cli.pc = "call"
    /\ pc = "done"
    /\ \E sv \in {"ok", "OSError"}, tl \in {"ok", "ImportError", "RuntimeError"} :
         LET a == IF outcome.kind = "return"
                  THEN cli_after_call(outcome.payload, cli.split, sv, tl)
                  ELSE CliRun("none", "none", <<>>, outcome.kind)
             e == IF a.exc = "none" THEN CliEnd("exit", 0, <<>>)
                  ELSE cli_except(a.exc)
         IN  cli' = [cli EXCEPT !.pc = e.pc, !.status = e.status,
                                !.save = a.save, !.tiles = a.tiles,
                                !.printed = @ \o a.printed \o e.printed]
    /\ UNCHANGED <<pc, geometry, kwargs, geometry_input, params, log,
                   submit_resp, fetched, dl_resp, poll_end, decoded, zip_run,
                   cancelled, sessions, outcome, slept, other, cur>>

CliNext ==
    \/ CliStart
    \/ Start
    \/ SubmitRespond
    \/ FetchRespond
    \/ SleepDone
    \/ DownloadRespond
    \/ Cancel
    \/ CliFinish

CliSpec == CliInit /\ [][CliNext]_vars

\* get_osm_data raised; the save raised; run is over
CallRaised == pc = "done" /\ outcome.kind # "return"
SaveRaised == cli.save \notin {"none", "ok"}
RunEnded == cli.pc \in {"exit", "escaped"}

\* the place of the first message x among the printed ones, 0 if none
Printed(x) ==
    IF \E i \in 1..Len(cli.printed) : cli.printed[i] = x
    THEN CHOOSE i \in 1..Len(cli.printed) :
           /\ cli.printed[i] = x
           /\ \A k \in 1..(i - 1) : cli.printed[k] # x
    ELSE 0

\* C21: when get_osm_data or the save raises, with one of the four client
\* errors or with any other exception, run returns a nonzero status and its
\* last message reports the error; run returns 0 only after the payload was
\* saved; a split is made only after the save; and a split that fails with
\* ImportError is reported as a warning and leaves the status at 0
C21_CliExitStatus ==
    (RunEnded /\ ~cancelled) =>
        /\ (CallRaised \/ SaveRaised) =>
             /\ cli.pc = "exit"
             /\ cli.status = 1
             /\ Last(cli.printed) \in {"Error", "Unexpected error"}
        /\ (CallRaised /\ Base(outcome.kind) = "OSMClientError") =>
             Last(cli.printed) = "Error"
        /\ (cli.pc = "exit" /\ cli.status = 0) =>
             /\ pc = "done"
             /\ outcome.kind = "return"
             /\ cli.save = "ok"
             /\ Printed("saved") > 0
        /\ cli.tiles # "none" =>
             /\ cli.split
             /\ cli.save = "ok"
             /\ 0 < Printed("saved")
             /\ Printed("saved") < Printed("splitting")
        /\ cli.tiles = "ImportError" =>
             /\ cli.pc = "exit"
             /\ cli.status = 0
             /\ Last(cli.printed) = "warning"

\* an exception that is no client error left get_osm_data and run reported
\* it and returned 1
C21_Witness ==
    /\ cli.pc = "exit"
    /\ CallRaised
    /\ outcome.kind = "KeyError"
    /\ cli.status = 1
    /\ Last(cli.printed) = "Unexpected error"

\* the payload was saved, the split failed for a missing dependency and run
\* returned 0
C21_WitnessImportError ==
    /\ cli.pc = "exit"
    /\ cli.save = "ok"
    /\ cli.tiles = "ImportError"
    /\ cli.status = 0

\* the save raised and run returned 1
C21_WitnessSaveRaised ==
    /\ cli.pc = "exit"
    /\ outcome.kind = "return"
    /\ cli.save = "OSError"
    /\ cli.status = 1

----------------------------------------------------------------------------
(* The poll loop: failed fetches and sleeps *)

\* a status fetch that failed: an exception, an HTTP status from 400 on, or
\* an answer without a status member
FailedFetch(r) ==
    \/ r.fail # "none"
    \/ r.http >= HttpErrorMin
    \/ r.status = ABSENT

\* C22: a status fetch that is answered with an HTTP status from 400 on, or
\* that fails with another exception (an answer without status included),
\* is the last one: the poll ends at once with TaskPollingError, which ends
\* the call, and neither a sleep nor another fetch follows it
C22_FailedFetchEndsThePoll ==
    \A i \in 1..Len(fetched) :
        FailedFetch(fetched[i]) =>
            /\ i = Len(fetched)
            /\ poll_end = "TaskPollingError"
            /\ pc = "done"
            /\ outcome.kind = "TaskPollingError"
            /\ Last(log) = "fetch"
            /\ Count(log, "fetch") = Len(fetched)
            /\ Count(log, "sleep") = Len(fetched) - 1

\* the second fetch failed with an exception after a pending answer
C22_Witness ==
    /\ pc = "done"
    /\ Len(fetched) = 2
    /\ fetched[1].status = "RUNNING"
    /\ fetched[2].fail = "transport"
    /\ outcome.kind = "TaskPollingError"

\* the fetch was answered with an HTTP error, or without a status
C22_WitnessHttpError ==
    /\ pc = "done"
    /\ Len(fetched) = 1
    /\ fetched[1].fail = "none"
    /\ fetched[1].http = 500
    /\ outcome.kind = "TaskPollingError"
C22_WitnessNoStatus ==
    /\ pc = "done"
    /\ Len(fetched) = 1
    /\ fetched[1].fail = "none"
    /\ fetched[1].http = 200
    /\ fetched[1].status = ABSENT
    /\ outcome.kind = "TaskPollingError"

\* the number of status fetches started before place i of the log
FetchesBefore(i) == Cardinality({j \in 1..(i - 1) : log[j] = "fetch"})

\* C23: a sleep comes only directly after a status fetch that was answered
\* with a pending status, and the next fetch follows it directly (unless
\* the call is still in the sleep or was cancelled in it); no sleep comes
\* before the first fetch or after a terminal answer, so a poll that
\* returned after n fetches has slept n - 1 times; and every sleep lasts 2
C23_SleepsBetweenFetches ==
    /\ \A i \in 1..Len(log) :
         log[i] = "sleep" =>
           /\ i > 1
           /\ log[i - 1] = "fetch"
           /\ FetchesBefore(i) \in 1..Len(fetched)
           /\ OtherStatus(fetched[FetchesBefore(i)])
           /\ i < Len(log) => log[i + 1] = "fetch"
           /\ i = Len(log) =>
                (pc = "poll_sleep" \/ (cancelled /\ pc = "done"))
    /\ \A i \in 1..Len(fetched) :
         OtherStatus(fetched[i]) => Count(log, "sleep") >= i
    /\ poll_end = "returned" =>
         /\ Count(log, "fetch") = Len(fetched)
         /\ Count(log, "sleep") = Len(fetched) - 1
    /\ Len(slept) = Count(log, "sleep")
    /\ \A k \in 1..Len(slept) : slept[k] = 2

\* a poll returned after three fetches and two sleeps
C23_Witness ==
    /\ poll_end = "returned"
    /\ Len(fetched) = 3
    /\ Count(log, "sleep") = 2
    /\ slept = <<2, 2>>

----------------------------------------------------------------------------
(* The session scopes of a call *)

\* the place in the log of the first operation of the kind x
FirstAt(x) == CHOOSE i \in 1..Len(log) : log[i] = x /\ \A j \in 1..(i - 1) : log[j] # x

\* C24: each of the three network operations opens its own session and
\* leaves it on every exit path. While the submission is in flight the one
\* open session is the one opened for it; during the whole poll loop, in
\* every fetch and every sleep, the one open session is the one opened
\* before the first status fetch; while the download is in flight the one
\* open session is the one opened for it; at most one session is open at any
\* moment; and no session is open before the call has sent anything or once
\* it has returned, raised or been cancelled.
C24_SessionScopes ==
    /\ Cardinality(sessions) <= 1
    /\ pc = "submit" => sessions = {[op |-> "submit", at |-> FirstAt("submit")]}
    /\ Polling => sessions = {[op |-> "poll", at |-> FirstAt("fetch")]}
    /\ pc = "download" =>
         sessions = {[op |-> "download", at |-> FirstAt("download")]}
    /\ pc \in {"start", "done"} => sessions = {}

\* C24: a step that stays in the poll loop keeps the session it has
C24_PollKeepsItsSession == [][Polling /\ Polling' => sessions' = sessions]_vars

\* a call cancelled in its third status fetch: the two sleeps and the three
\* fetches went through one session, and none is open now
C24_Witness ==
    /\ pc = "done"
    /\ cancelled
    /\ outcome.kind = "CancelledError"
    /\ Count(log, "fetch") = 3
    /\ Len(fetched) = 2
    /\ sessions = {}

\* a call that returned a payload after two status fetches and a download
C24_WitnessReturned ==
    /\ pc = "done"
    /\ outcome.kind = "return"
    /\ Count(log, "fetch") = 2
    /\ Count(log, "download") = 1
    /\ sessions = {}

\* a poll that raised in its second fetch
C24_WitnessRaised ==
    /\ pc = "done"
    /\ ~cancelled
    /\ poll_end = "TaskPollingError"
    /\ Len(fetched) = 2
    /\ sessions = {}

\* the poll loop in its second sleep, in the session of the first fetch
C24_WitnessPolling ==
    /\ pc = "poll_sleep"
    /\ Len(slept) = 2
    /\ sessions = {[op |-> "poll", at |-> 2]}
============================================================================
